---------------------------- MODULE Spec2Model ----------------------------
(***************************************************************************)
(* Model of core/analysis_engine.py (class AnalysisEngine): the SEO        *)
(* scorers, the industry resolver, the AIO normalizer, the result          *)
(* integrator, the consistency validator and the analyze_url handler.      *)
(*                                                                         *)
(* Numbers.  Every score is a rational whose denominator divides           *)
(* 16*3*5*7: the scorers mix tenths (weights 0.4/0.3/0.7), thirds (the     *)
(* technical mean), sevenths (the SEO aggregate mean) and sixteenths (the  *)
(* mean of the AIO items).  A score s is held as the integer s * Unit, so  *)
(* the arithmetic below is exact where the code's floats round to about    *)
(* 1e-15.  An integrated score carries one more factor 100 (the percent    *)
(* weights).                                                               *)
(***************************************************************************)
EXTENDS Integers, Sequences, FiniteSets, TLC

Unit == 16 * 3 * 5 * 7

Pt(n) == n * Unit

None == [none |-> TRUE]

(***************************************************************************)
(* Bounds of the explored inputs.                                          *)
(***************************************************************************)
MaxTitleLen == 90
MaxDescLen == 201
MaxHeadingCount == 2
MaxLinks == 6
MaxImages == 5

WordCounts == {0, 199, 200, 299, 300, 399, 400, 599, 600, 5000}
TextRatios == {0, 9, 10, 14, 15, 19, 20, 24, 25, 90}

(***************************************************************************)
(* SeoScorer: the seven bucketed scorers.                                  *)
(***************************************************************************)
SubScoreNames ==
  << "title_score", "meta_description_score", "headings_score",
     "content_score", "links_score", "images_score", "technical_score" >>

\* a title scorer whose best bucket ends before 60
TitleScoreBelow60(l) ==
  IF l = 0 THEN Pt(0)
  ELSE IF 30 <= l /\ l < 60 THEN Pt(10)
  ELSE IF (20 <= l /\ l < 30) \/ (60 <= l /\ l <= 70) THEN Pt(8)
  ELSE IF (10 <= l /\ l < 20) \/ (70 < l /\ l <= 80) THEN Pt(6)
  ELSE IF l < 10 THEN Pt(3) ELSE Pt(4)

\* len(title) -> score
_calculate_title_score(l) ==
  IF l = 0 THEN Pt(0)
  ELSE IF 30 <= l /\ l <= 60 THEN Pt(10)
  ELSE IF (20 <= l /\ l < 30) \/ (60 < l /\ l <= 70) THEN Pt(8)
  ELSE IF (10 <= l /\ l < 20) \/ (70 < l /\ l <= 80) THEN Pt(6)
  ELSE IF l < 10 THEN Pt(3) ELSE Pt(4)

\* len(desc) -> score
_calculate_meta_description_score(l) ==
  IF l = 0 THEN Pt(0)
  ELSE IF 120 <= l /\ l <= 156 THEN Pt(10)
  ELSE IF (100 <= l /\ l < 120) \/ (156 < l /\ l <= 170) THEN Pt(8)
  ELSE IF (80 <= l /\ l < 100) \/ (170 < l /\ l <= 200) THEN Pt(6)
  ELSE IF l < 80 THEN Pt(3) ELSE Pt(4)

\* headings: a function from 1..6 (the level) to the count of that level
_calculate_headings_score(headings) ==
  LET h1s == headings[1]
      h2s == headings[2]
      h1_sc == IF h1s = 1 THEN 10 ELSE (IF h1s > 1 THEN 5 ELSE 0)
      h2_sc == IF h2s >= 1 THEN 10 ELSE 0
      hier_sc == IF h1s > 0 /\ h2s = 0 /\ (\E i \in 3..6 : headings[i] > 0)
                 THEN 5 ELSE 10
  IN  (Pt(h1_sc) * 4) \div 10 + (Pt(h2_sc) * 3) \div 10 + (Pt(hier_sc) * 3) \div 10

\* wc: word count; tr: text to markup ratio in percent
_calculate_content_score(wc, tr) ==
  LET w_sc == IF wc >= 600 THEN 10 ELSE (IF wc >= 400 THEN 8 ELSE
              (IF wc >= 300 THEN 6 ELSE (IF wc >= 200 THEN 4 ELSE 2)))
      r_sc == IF tr >= 25 THEN 10 ELSE (IF tr >= 20 THEN 8 ELSE
              (IF tr >= 15 THEN 6 ELSE (IF tr >= 10 THEN 4 ELSE 2)))
  IN  (Pt(w_sc) * 7) \div 10 + (Pt(r_sc) * 3) \div 10

_calculate_links_score(int_l, ext_l) ==
  LET int_sc == IF int_l >= 5 THEN 10 ELSE (IF int_l >= 3 THEN 8 ELSE
                (IF int_l >= 1 THEN 5 ELSE 0))
      ext_sc == IF ext_l >= 3 THEN 10 ELSE (IF ext_l >= 1 THEN 8 ELSE 5)
  IN  (Pt(int_sc) * 7) \div 10 + (Pt(ext_sc) * 3) \div 10

\* ratio = img_alt / total, compared with k/10 as img_alt * 10 >= k * total
_calculate_images_score(img_alt, img_no_alt) ==
  LET total == img_alt + img_no_alt
  IN  IF total = 0 THEN Pt(5)
      ELSE IF img_alt = total THEN Pt(10)
      ELSE IF img_alt * 10 >= 8 * total THEN Pt(8)
      ELSE IF img_alt * 10 >= 6 * total THEN Pt(6)
      ELSE IF img_alt * 10 >= 4 * total THEN Pt(4)
      ELSE IF img_alt * 10 >= 2 * total THEN Pt(2) ELSE Pt(0)

TechnicalMutant(struct_data, viewport, canon_url) ==
  ( (IF struct_data THEN Pt(10) ELSE Pt(0))
  + (IF viewport THEN Pt(10) ELSE Pt(0))
  + (IF canon_url THEN Pt(10) ELSE Pt(5)) ) \div 2

\* canon_url: TRUE when the canonical URL string is non-empty
_calculate_technical_score(struct_data, viewport, canon_url) ==
  ( (IF struct_data THEN Pt(10) ELSE Pt(0))
  + (IF viewport THEN Pt(10) ELSE Pt(0))
  + (IF canon_url THEN Pt(10) ELSE Pt(5)) ) \div 3

\* sum(scores.values()) / len(scores) * 10
SeoTotal(sum, n) == IF n = 0 THEN 0 ELSE (sum \div n) * 10

RECURSIVE SumScores(_, _)
SumScores(scores, names) ==
  IF names = << >> THEN 0
  ELSE scores[Head(names)] + SumScores(scores, Tail(names))


(***************************************************************************)
(* State.  The engine's three stored fields (__init__, lines 178-180),     *)
(* the position of the analyze_url call in progress, that call's locals,   *)
(* and the outcome of the last call.  args/result hold the inputs and the  *)
(* output of a function applied on its own.                                *)
(***************************************************************************)
VARIABLES pc, seo_results, aio_results, last_analysis_results, call, ret,
          args, result

vars == << pc, seo_results, aio_results, last_analysis_results, call, ret,
           args, result >>

engine_vars == << pc, seo_results, aio_results, last_analysis_results, call, ret >>

\* AnalysisEngine.__init__
EngineInit ==
  /\ pc = "idle"
  /\ seo_results = None
  /\ aio_results = None
  /\ last_analysis_results = None
  /\ call = None
  /\ ret = None

(***************************************************************************)
(* SeoScorer on its own: the scores dict of _analyze_seo is built one      *)
(* scorer at a time, in the order of the dict literal, each scorer fed any *)
(* signal value of its bounded domain; then the aggregate is taken.  The   *)
(* aggregate reads the sub-scores only through their sum and their count,  *)
(* and that is what result keeps, with the last sub-score computed.        *)
(***************************************************************************)
HeadingCounts ==
  { h \in [1..6 -> 0..MaxHeadingCount] : \A i \in 3..6 : h[i] <= 1 }

Scored(name, score) ==
  [n |-> result.n + 1, name |-> name, score |-> score,
   sum |-> result.sum + score, aggregated |-> FALSE, total |-> 0]

InitSeo ==
  /\ EngineInit
  /\ args = None
  /\ result = [n |-> 0, name |-> "", score |-> 0, sum |-> 0,
               aggregated |-> FALSE, total |-> 0]

ScoreTitle ==
  /\ result.n = 0
  /\ \E l \in 0..MaxTitleLen :
       /\ args' = [title_len |-> l]
       /\ result' = Scored("title_score", _calculate_title_score(l))
  /\ UNCHANGED engine_vars

ScoreMetaDescription ==
  /\ result.n = 1
  /\ \E l \in 0..MaxDescLen :
       /\ args' = [description_len |-> l]
       /\ result' = Scored("meta_description_score",
                           _calculate_meta_description_score(l))
  /\ UNCHANGED engine_vars

ScoreHeadings ==
  /\ result.n = 2
  /\ \E h \in HeadingCounts :
       /\ args' = [headings |-> h]
       /\ result' = Scored("headings_score", _calculate_headings_score(h))
  /\ UNCHANGED engine_vars

ScoreContent ==
  /\ result.n = 3
  /\ \E wc \in WordCounts, tr \in TextRatios :
       /\ args' = [word_count |-> wc, text_html_ratio |-> tr]
       /\ result' = Scored("content_score", _calculate_content_score(wc, tr))
  /\ UNCHANGED engine_vars

ScoreLinks ==
  /\ result.n = 4
  /\ \E i \in 0..MaxLinks, e \in 0..MaxLinks :
       /\ args' = [internal_links |-> i, external_links |-> e]
       /\ result' = Scored("links_score", _calculate_links_score(i, e))
  /\ UNCHANGED engine_vars

ScoreImages ==
  /\ result.n = 5
  /\ \E a \in 0..MaxImages, b \in 0..MaxImages :
       /\ args' = [images_with_alt |-> a, images_without_alt |-> b]
       /\ result' = Scored("images_score", _calculate_images_score(a, b))
  /\ UNCHANGED engine_vars

ScoreTechnical ==
  /\ result.n = 6
  /\ \E sd \in BOOLEAN, vp \in BOOLEAN, cu \in BOOLEAN :
       /\ args' = [has_structured_data |-> sd, has_viewport |-> vp,
                   canonical_url |-> cu]
       /\ result' = Scored("technical_score",
                           _calculate_technical_score(sd, vp, cu))
  /\ UNCHANGED engine_vars

Aggregate ==
  /\ result.n = Len(SubScoreNames)
  /\ ~result.aggregated
  /\ result' = [result EXCEPT !.aggregated = TRUE,
                              !.total = SeoTotal(result.sum, result.n)]
  /\ UNCHANGED << args, engine_vars >>

NextSeo ==
  \/ ScoreTitle
  \/ ScoreMetaDescription
  \/ ScoreHeadings
  \/ ScoreContent
  \/ ScoreLinks
  \/ ScoreImages
  \/ ScoreTechnical
  \/ Aggregate

SpecSeo == InitSeo /\ [][NextSeo]_vars

\* C7: every SEO sub-score computed from any page signals lies in [0,10]
\* and the aggregate of the seven lies in [0,100].
C7_SeoScoresInRange ==
  /\ result.n >= 1 => (0 <= result.score /\ result.score <= Pt(10))
  /\ result.aggregated => (0 <= result.total /\ result.total <= Pt(100))

\* a page whose seven sub-scores are all 10 has been aggregated to 100
C7_Witness ==
  /\ result.aggregated
  /\ result.total = Pt(100)


\* C14: the title score is 0 for the empty title, 10 for a length of 30 to
\* 60, 8 for 20 to 29 or 61 to 70, 6 for 10 to 19 or 71 to 80, 3 for 1 to 9
\* and 4 above 80, every boundary inclusive
C14_TitleBuckets ==
  result.name = "title_score" =>
    LET L == args.title_len
        InRange(lo, hi) == lo <= L /\ L <= hi
    IN  /\ L = 0 => result.score = Pt(0)
        /\ InRange(30, 60) => result.score = Pt(10)
        /\ (InRange(20, 29) \/ InRange(61, 70)) => result.score = Pt(8)
        /\ (InRange(10, 19) \/ InRange(71, 80)) => result.score = Pt(6)
        /\ InRange(1, 9) => result.score = Pt(3)
        /\ L > 80 => result.score = Pt(4)

\* a title of 60 characters, the upper end of the best bucket, was scored 10
C14_Witness ==
  /\ result.name = "title_score"
  /\ args.title_len = 60
  /\ result.score = Pt(10)

(***************************************************************************)
(* Values of a parsed LLM object.  A value is a number (int, float or      *)
(* bool, in Unit), or something that is no number (a string, null, a       *)
(* list); a key of an object may also be absent.                           *)
(***************************************************************************)
Num(v) == [kind |-> "num", v |-> v]
NonNum == [kind |-> "other", v |-> 0]
Absent == [kind |-> "absent", v |-> 0]

Half == Unit \div 2

\* -5, -0.5, 0, 0.5, 1, 5, 10, 10.5, 50, 75, 100, 100.5, 150
RawNumbers ==
  { k * Half : k \in {-10, -1, 0, 1, 2, 10, 20, 21, 100, 150, 200, 201, 300} }

RawValues == { Num(v) : v \in RawNumbers } \cup {NonNum}

\* a scale rule whose 0-10 branch leaves out the boundary 10
ScaleBelowTen(value) ==
  IF value.kind # "num" THEN 0
  ELSE IF 0 <= value.v /\ value.v < Pt(10) THEN value.v * 10
  ELSE IF value.v > Pt(100) THEN Pt(100)
  ELSE value.v

\* value: a Num or a NonNum; the result is a number in Unit
_scale_to_100(value) ==
  IF value.kind # "num" THEN 0
  ELSE IF 0 <= value.v /\ value.v <= Pt(10) THEN value.v * 10
  ELSE IF value.v > Pt(100) THEN Pt(100)
  ELSE value.v

(***************************************************************************)
(* AioNormalizer, lines 585-604: from the parsed object to the normalized  *)
(* AioScoreSet.  An object is                                              *)
(*   total_score      a value, or Absent                                   *)
(*   category_scores  [kind, items]: "absent", "dict" (items: category ->  *)
(*                    value) or "other" (no dict)                          *)
(*   scores           [kind, items]: "absent", "dict" (items: key -> item  *)
(*                    record) or "other"                                   *)
(*   immediate_actions  the sequence of the actions' 'action' texts        *)
(* The other pass-through fields (basic_info, medium_term_strategies,      *)
(* competitive_advantages, market_trend_strategies, industry_analysis) are *)
(* read by no operation below and are not held.                            *)
(***************************************************************************)
\* the keys of AIO_SCORE_MAP_JP, as the prompt of _analyze_aio lists them
AIO_SCORE_MAP_JP ==
  << "experience", "expertise", "authoritativeness", "trustworthiness",
     "structure", "qa_compatibility", "citation_potential", "multimodal",
     "search_intent", "personalization", "uniqueness", "completeness",
     "readability", "mobile_friendly", "page_speed", "metadata" >>

ScoreKeys == { AIO_SCORE_MAP_JP[i] : i \in 1..Len(AIO_SCORE_MAP_JP) }

CategoryNames ==
  { "eeat_score", "ai_search_score", "user_experience_score", "technical_score" }

\* an item of 'scores': a dict with an optional score and its advice
Item(score, advice) == [isdict |-> TRUE, score |-> score, advice |-> advice]

default_score_advice == Item(Num(0), "no data from API")

Raised(error) == [ok |-> FALSE, error |-> error]
Returned(value) == [ok |-> TRUE, value |-> value]

\* dict.get(key, default) on the items of a "dict"
Get(items, key, default) ==
  IF key \in DOMAIN items THEN items[key] ELSE default

NormalizeScoresNoDefault(scores) ==
  [k \in (IF scores.kind = "absent" THEN {} ELSE DOMAIN scores.items)
     |-> scores.items[k]]

\* lines 596-598; scores.kind is "absent" or "dict"
NormalizeScores(scores) ==
  [k \in ScoreKeys |->
     IF scores.kind = "absent" THEN default_score_advice
     ELSE Get(scores.items, k, default_score_advice)]

\* lines 600-603; category_scores.kind is "absent" or "dict"
NormalizeCategories(category_scores) ==
  [c \in (IF category_scores.kind = "absent" THEN {}
          ELSE DOMAIN category_scores.items)
     |-> _scale_to_100(category_scores.items[c])]

\* lines 585-604
Normalize(obj) ==
  IF obj.scores.kind = "other" THEN Raised("AttributeError")
  ELSE IF obj.category_scores.kind = "other" THEN Raised("AttributeError")
  ELSE Returned(
    [scores |-> NormalizeScores(obj.scores),
     category_scores |-> NormalizeCategories(obj.category_scores),
     total_score |-> _scale_to_100(IF obj.total_score.kind = "absent"
                                   THEN Num(0) ELSE obj.total_score),
     immediate_actions |-> obj.immediate_actions])

(***************************************************************************)
(* AioNormalizer on its own: any parsed object of the sampled shapes.      *)
(***************************************************************************)
NoDictItem == [isdict |-> FALSE, score |-> Absent, advice |-> ""]

ItemSamples ==
  { Item(Num(Pt(7)), "advice"), Item(NonNum, "advice"),
    Item(Absent, "advice"), NoDictItem }

\* the key sets the source object's 'scores' may carry: none, one, all but
\* one, all, and one with a key outside the expected sixteen
PresentSets ==
  {{}, ScoreKeys, {"experience", "unexpected_key"}}
    \cup { {k} : k \in ScoreKeys } \cup { ScoreKeys \ {k} : k \in ScoreKeys }

ScoresSamples ==
  { [kind |-> "absent", items |-> << >>], [kind |-> "other", items |-> << >>] }
    \cup { [kind |-> "dict", items |-> [k \in S |-> it]] :
             S \in PresentSets, it \in ItemSamples }

CategorySamples ==
  { [kind |-> "absent", items |-> << >>], [kind |-> "other", items |-> << >>] }
    \cup { [kind |-> "dict", items |-> [c \in D |-> v]] :
             D \in {{}, {"eeat_score"}, CategoryNames}, v \in RawValues }

AioObjects ==
  [ total_score : RawValues \cup {Absent},
    category_scores : CategorySamples,
    scores : ScoresSamples,
    immediate_actions : {<< "a1" >>} ]

InitAio ==
  /\ EngineInit
  /\ args \in AioObjects
  /\ result = None

NormalizeObject ==
  /\ result = None
  /\ result' = Normalize(args)
  /\ UNCHANGED << args, engine_vars >>

NextAio == NormalizeObject

SpecAio == InitAio /\ [][NextAio]_vars

InRange100(x) == 0 <= x /\ x <= Pt(100)

\* C5: after the normalizer succeeds, the normalized total_score and every
\* normalized category score lie in [0,100], whatever the numeric input.
C5_NormalizedInRange ==
  (result # None /\ result.ok) =>
    /\ InRange100(result.value.total_score)
    /\ \A c \in DOMAIN result.value.category_scores :
         InRange100(result.value.category_scores[c])

\* C8: whenever the normalizer returns, the normalized scores map has
\* exactly the sixteen expected keys; a key absent from the source (or any
\* key when the source has no 'scores') holds the default record, and a key
\* present in the source holds the source's record unchanged.
C8_SixteenKeys ==
  (result # None /\ result.ok) =>
    /\ DOMAIN result.value.scores = ScoreKeys
    /\ \A k \in ScoreKeys :
         IF args.scores.kind = "dict" /\ k \in DOMAIN args.scores.items
         THEN result.value.scores[k] = args.scores.items[k]
         ELSE result.value.scores[k] = [isdict |-> TRUE, score |-> Num(0),
                                        advice |-> "no data from API"]

\* the normalizer returned for a source that carries some of the expected
\* keys and lacks others
C8_Witness ==
  /\ result # None
  /\ result.ok
  /\ args.scores.kind = "dict"
  /\ \E k \in ScoreKeys : k \in DOMAIN args.scores.items
  /\ \E k \in ScoreKeys : k \notin DOMAIN args.scores.items

(***************************************************************************)
(* _scale_to_100 on its own: any number from -5 to MaxRaw in steps of one *)
(* half, and a value that is no number.                                    *)
(***************************************************************************)
MaxRaw == 150

ScaleInputs == { Num(k * Half) : k \in (-10)..(2 * MaxRaw) } \cup {NonNum}

InitScale ==
  /\ EngineInit
  /\ args \in ScaleInputs
  /\ result = None

ScaleTo100 ==
  /\ result = None
  /\ result' = Returned(_scale_to_100(args))
  /\ UNCHANGED << args, engine_vars >>

NextScale == ScaleTo100

SpecScale == InitScale /\ [][NextScale]_vars

\* C12: on a number v, _scale_to_100 returns v x 10 when 0 <= v <= 10, 100
\* when v > 100 and v itself when 10 < v <= 100; so 5 gives 50, 75 gives 75,
\* 150 gives 100, 0 gives 0 and 10 gives 100
C12_ScaleTable ==
  (result # None /\ args.kind = "num") =>
    /\ (0 <= args.v /\ args.v <= Pt(10)) => result.value = 10 * args.v
    /\ args.v > Pt(100) => result.value = Pt(100)
    /\ (Pt(10) < args.v /\ args.v <= Pt(100)) => result.value = args.v
    /\ args.v = Pt(5) => result.value = Pt(50)
    /\ args.v = Pt(75) => result.value = Pt(75)
    /\ args.v = Pt(150) => result.value = Pt(100)
    /\ args.v = Pt(0) => result.value = Pt(0)
    /\ args.v = Pt(10) => result.value = Pt(100)

\* the boundary: 10 has been scaled to 100
C12_Witness ==
  /\ result # None
  /\ args = Num(Pt(10))
  /\ result.value = Pt(100)

(***************************************************************************)
(* The parsed page (soup).  Elements are counted by kind and by place:     *)
(* 'chrome' holds what lies inside script/style/header/footer/nav/aside/   *)
(* form/iframe elements, 'content' what lies outside them.  ld_json counts *)
(* the script elements of type application/ld+json.  title, meta tags and  *)
(* the canonical link sit in the head, outside every removed element.      *)
(* word_count and text_html_ratio are those of the tree without its        *)
(* chrome, which is the tree lines 352-368 read them from.                 *)
(***************************************************************************)
NoHeadings == [i \in 1..6 |-> 0]

EmptyRegion ==
  [headings |-> NoHeadings, internal_links |-> 0, external_links |-> 0,
   images_with_alt |-> 0, images_without_alt |-> 0]

\* lines 266-267: every script, style, header, footer, nav, aside, form and
\* iframe element is decomposed in the tree that was passed in
StripNonContent(soup) ==
  [soup EXCEPT !.ld_json = 0, !.chrome = EmptyRegion]

AnalyzeSeoTotalMutant(scores) == SumScores(scores, SubScoreNames) \div Len(SubScoreNames)

\* line 388
AnalyzeSeoTotal(scores) ==
  SeoTotal(SumScores(scores, SubScoreNames), Len(SubScoreNames))

\* lines 286-398, the fields that are scored or reported as counts
_analyze_seo(soup) ==
  LET headings == [i \in 1..6 |->
                     soup.content.headings[i] + soup.chrome.headings[i]]
      internal == soup.content.internal_links + soup.chrome.internal_links
      external == soup.content.external_links + soup.chrome.external_links
      images_with_alt == soup.content.images_with_alt + soup.chrome.images_with_alt
      images_without_alt ==
        soup.content.images_without_alt + soup.chrome.images_without_alt
      has_structured_data == soup.ld_json > 0
      scores ==
        [title_score |-> _calculate_title_score(soup.title_len),
         meta_description_score |->
           _calculate_meta_description_score(soup.description_len),
         headings_score |-> _calculate_headings_score(headings),
         content_score |->
           _calculate_content_score(soup.word_count, soup.text_html_ratio),
         links_score |-> _calculate_links_score(internal, external),
         images_score |->
           _calculate_images_score(images_with_alt, images_without_alt),
         technical_score |->
           _calculate_technical_score(has_structured_data, soup.has_viewport,
                                      soup.canonical_url)]
  IN  [basics |-> [title_length |-> soup.title_len,
                   meta_description_length |-> soup.description_len],
       structure |-> [headings |-> headings,
                      internal_links_count |-> internal,
                      external_links_count |-> external,
                      images_count |-> images_with_alt + images_without_alt,
                      images_with_alt |-> images_with_alt,
                      images_without_alt |-> images_without_alt],
       technical |-> [has_structured_data |-> has_structured_data,
                      structured_data_count |-> soup.ld_json,
                      canonical_url |-> soup.canonical_url,
                      has_viewport |-> soup.has_viewport],
       content |-> [word_count |-> soup.word_count,
                    text_html_ratio |-> soup.text_html_ratio],
       scores |-> scores,
       total_score |-> AnalyzeSeoTotal(scores)]

(***************************************************************************)
(* Sample pages: every scorer's signals at a weak and at a strong value.   *)
(***************************************************************************)
MaxLdJson == 1

GoodHeadings == [i \in 1..6 |-> IF i <= 2 THEN 1 ELSE 0]

NavRegion ==
  [headings |-> [i \in 1..6 |-> IF i = 1 THEN 1 ELSE 0],
   internal_links |-> 2, external_links |-> 1,
   images_with_alt |-> 0, images_without_alt |-> 1]

ContentSamples ==
  [ headings : {NoHeadings, GoodHeadings},
    links : {[internal |-> 0, external |-> 0], [internal |-> 5, external |-> 3]},
    images : {[with_alt |-> 0, without_alt |-> 1],
              [with_alt |-> 1, without_alt |-> 0]},
    title_len : {5, 45},
    description_len : {0, 140},
    text : {[word_count |-> 0, text_html_ratio |-> 0],
            [word_count |-> 600, text_html_ratio |-> 25]},
    head : {[has_viewport |-> FALSE, canonical_url |-> FALSE],
            [has_viewport |-> TRUE, canonical_url |-> TRUE]} ]

Soup(c, ld, chrome) ==
  [title_len |-> c.title_len, description_len |-> c.description_len,
   ld_json |-> ld, has_viewport |-> c.head.has_viewport,
   canonical_url |-> c.head.canonical_url,
   content |-> [headings |-> c.headings,
                internal_links |-> c.links.internal,
                external_links |-> c.links.external,
                images_with_alt |-> c.images.with_alt,
                images_without_alt |-> c.images.without_alt],
   chrome |-> chrome,
   word_count |-> c.text.word_count,
   text_html_ratio |-> c.text.text_html_ratio]

(***************************************************************************)
(* ResultIntegrator, lines 606-646.  The weights are held in percent       *)
(* (seo_weight * 100, aio_weight * 100) and integrated_score is held       *)
(* times 100, so that it stays an integer.                                 *)
(***************************************************************************)
\* round(num / den) for num >= 0, den > 0: Python rounds halves to even
Round(num, den) ==
  LET q == num \div den
      r == num % den
  IN  IF 2 * r < den THEN q
      ELSE IF 2 * r > den THEN q + 1
      ELSE IF q % 2 = 0 THEN q ELSE q + 1

\* list.sort(key=score) is stable: insert after the entries that are not greater
RECURSIVE InsertByScore(_, _, _)
InsertByScore(sorted, name, scores) ==
  IF sorted = << >> THEN << name >>
  ELSE IF scores[Head(sorted)] <= scores[name]
       THEN << Head(sorted) >> \o InsertByScore(Tail(sorted), name, scores)
       ELSE << name >> \o sorted

RECURSIVE SortByScore(_, _)
SortByScore(names, scores) ==
  IF names = << >> THEN << >>
  ELSE InsertByScore(SortByScore(SubSeq(names, 1, Len(names) - 1), scores),
                     names[Len(names)], scores)

\* the sub-scores below 7, left in the order of the scores dict
LowItemsUnsorted(scores) ==
  SelectSeq(SubScoreNames, LAMBDA k : scores[k] < Pt(7))

\* lines 622-624: the sub-scores below 7, in ascending order of score
LowItems(scores) ==
  SortByScore(SelectSeq(SubScoreNames, LAMBDA k : scores[k] < Pt(7)), scores)

Take(seq, n) == SubSeq(seq, 1, IF Len(seq) < n THEN Len(seq) ELSE n)

\* lines 615-630
Improvements(seo_res, aio_res, seo_score, aio_total_score) ==
  LET immediate == aio_res.immediate_actions
  IN  IF aio_total_score < seo_score
      THEN [i \in 1..Len(Take(immediate, 3)) |->
              [note |-> "AIO priority", what |-> immediate[i], score |-> 0]]
           \o (IF seo_score < Pt(70)
               THEN << [note |-> "SEO complement", what |-> "title_score",
                        score |-> seo_res.scores["title_score"]] >>
               ELSE << >>)
      ELSE LET low == Take(LowItems(seo_res.scores), 2)
           IN  [i \in 1..Len(low) |->
                  [note |-> "SEO priority", what |-> low[i],
                   score |-> seo_res.scores[low[i]]]]
               \o (IF immediate # << >>
                   THEN << [note |-> "AIO complement", what |-> immediate[1],
                            score |-> 0] >>
                   ELSE << >>)

RecommendedSeoFocusNoTie(seo_score, aio_total_score) ==
  LET total_gap == (Pt(100) - seo_score) + (Pt(100) - aio_total_score)
  IN  IF total_gap > 0 THEN Round((Pt(100) - seo_score) * 100, total_gap)
      ELSE 0

\* lines 631-635
RecommendedSeoFocus(seo_score, aio_total_score) ==
  LET total_gap == (Pt(100) - seo_score) + (Pt(100) - aio_total_score)
  IN  IF total_gap = 0 THEN 50
      ELSE IF total_gap > 0 THEN Round((Pt(100) - seo_score) * 100, total_gap)
      ELSE 50

\* line 614
IntegratedScore(seo_score, aio_total_score, seo_weight, aio_weight) ==
  seo_score * seo_weight + aio_total_score * aio_weight

\* lines 606-646 (seo_res, aio_res: the parameters seo_results, aio_results);
\* aio_res is a normalized AioScoreSet, whose total_score
\* is a number, on which float() is the identity
_integrate_results(seo_res, aio_res, seo_weight, aio_weight) ==
  LET seo_score == seo_res.total_score
      aio_total_score == _scale_to_100(Num(aio_res.total_score))
      recommended_seo_focus == RecommendedSeoFocus(seo_score, aio_total_score)
  IN  IF \E k \in DOMAIN aio_res.scores : ~aio_res.scores[k].isdict
      THEN Raised("AttributeError")
      ELSE Returned(
        [integrated_score |->
           IntegratedScore(seo_score, aio_total_score, seo_weight, aio_weight),
         seo_score |-> seo_score,
         aio_score |-> aio_total_score,
         primary_focus |-> IF aio_total_score < seo_score THEN "AIO" ELSE "SEO",
         improvements |->
           Improvements(seo_res, aio_res, seo_score, aio_total_score),
         seo_score_distribution |-> seo_res.scores,
         aio_score_distribution |->
           [k \in DOMAIN aio_res.scores |->
              IF aio_res.scores[k].score.kind = "absent" THEN Num(0)
              ELSE aio_res.scores[k].score],
         recommended_balance |->
           [seo_focus |-> recommended_seo_focus,
            aio_focus |-> 100 - recommended_seo_focus]])

(***************************************************************************)
(* ResultIntegrator on its own: any SeoScoreSet _analyze_seo builds from a *)
(* sample page, any AioScoreSet the normalizer builds from a sample        *)
(* object, any sample balance.                                             *)
(***************************************************************************)
Balances == {0, 30, 50, 100}

ActionLists == { << >>, << "a1" >>, << "a1", "a2", "a3", "a4" >> }

SeoSamples ==
  { _analyze_seo(Soup(c, ld, EmptyRegion)) : c \in ContentSamples, ld \in 0..MaxLdJson }

IntegrateObjects ==
  [ total_score : RawValues \cup {Absent},
    category_scores : {[kind |-> "absent", items |-> << >>]},
    scores : {[kind |-> "absent", items |-> << >>],
              [kind |-> "dict",
               items |-> [k \in ScoreKeys |-> Item(Num(Pt(7)), "advice")]]},
    immediate_actions : ActionLists ]

AioSamples == { Normalize(o).value : o \in IntegrateObjects }

InitIntegrate ==
  /\ EngineInit
  /\ args \in [seo_results : SeoSamples, aio_results : AioSamples,
               balance : Balances]
  /\ result = None

\* analyze_url, lines 220-222
Integrate ==
  /\ result = None
  /\ result' = _integrate_results(args.seo_results, args.aio_results,
                                  100 - args.balance, args.balance)
  /\ UNCHANGED << args, engine_vars >>

NextIntegrate == Integrate

SpecIntegrate == InitIntegrate /\ [][NextIntegrate]_vars

\* C3: for an SEO aggregate and a stored AIO total in [0,100], balance 0
\* gives integrated_score = the SEO aggregate and balance 100 gives
\* integrated_score = the stored AIO total (integrated_score is held * 100).
C3_BalanceEndpoints ==
  ( /\ result # None
    /\ result.ok
    /\ InRange100(args.seo_results.total_score)
    /\ InRange100(args.aio_results.total_score) ) =>
    /\ args.balance = 0 =>
         result.value.integrated_score = 100 * args.seo_results.total_score
    /\ args.balance = 100 =>
         result.value.integrated_score = 100 * args.aio_results.total_score

\* C10: the recommended balance sums to 100, and is exactly 50/50 when the
\* SEO aggregate and the AIO total are both 100.
C10_RecommendedBalance ==
  (result # None /\ result.ok) =>
    /\ result.value.recommended_balance.seo_focus
         + result.value.recommended_balance.aio_focus = 100
    /\ ( /\ args.seo_results.total_score = Pt(100)
         /\ args.aio_results.total_score = Pt(100) ) =>
         /\ result.value.recommended_balance.seo_focus = 50
         /\ result.value.recommended_balance.aio_focus = 50

\* the integrator ran on two totals of 100
C10_Witness ==
  /\ result # None
  /\ result.ok
  /\ args.seo_results.total_score = Pt(100)
  /\ args.aio_results.total_score = Pt(100)
  /\ result.value.recommended_balance.seo_focus = 50

\* C15: primary_focus is "AIO" exactly when the stored total of the
\* AioScoreSet is strictly lower than the SEO aggregate, and "SEO" otherwise
C15_PrimaryFocus ==
  (result # None /\ result.ok) =>
    /\ result.value.primary_focus \in {"AIO", "SEO"}
    /\ result.value.primary_focus = "AIO"
         <=> args.aio_results.total_score < args.seo_results.total_score

\* the place of a sub-score in the canonical order
CanonicalPlace(name) == CHOOSE i \in 1..Len(SubScoreNames) : SubScoreNames[i] = name

\* sub-score a comes before sub-score b: lower score, or equal score and
\* earlier in the canonical order
ComesBefore(scores, a, b) ==
  \/ scores[a] < scores[b]
  \/ scores[a] = scores[b] /\ CanonicalPlace(a) < CanonicalPlace(b)

\* C16: when the AIO total is not lower than the SEO aggregate, the
\* improvement list is the notes of the (at most two) lowest SEO sub-scores
\* below 7, in ascending order with ties in canonical order, followed by one
\* note for the first immediate action when there is one: at most three
\* entries, none for a sub-score of 7 or more
C16_SeoPriorityList ==
  ( /\ result # None
    /\ result.ok
    /\ \/ args.aio_results.total_score >= args.seo_results.total_score
       \/ result.value.aio_score >= args.seo_results.total_score ) =>
    LET scores == args.seo_results.scores
        immediate == args.aio_results.immediate_actions
        improvements == result.value.improvements
        low == { k \in DOMAIN scores : scores[k] < Pt(7) }
        n == IF Cardinality(low) < 2 THEN Cardinality(low) ELSE 2
        picked == { improvements[i].what : i \in 1..n }
    IN  /\ Len(improvements) = n + (IF immediate # << >> THEN 1 ELSE 0)
        /\ Len(improvements) <= 3
        /\ \A i \in 1..n :
             /\ improvements[i].note = "SEO priority"
             /\ improvements[i].what \in low
             /\ improvements[i].score = scores[improvements[i].what]
        /\ n = 2 => ComesBefore(scores, improvements[1].what, improvements[2].what)
        /\ \A k \in low \ picked :
             \A i \in 1..n : ComesBefore(scores, improvements[i].what, k)
        /\ immediate # << >> =>
             /\ improvements[n + 1].note = "AIO complement"
             /\ improvements[n + 1].what = immediate[1]

\* three entries: the second sub-score picked ties below 7 with one that is
\* left out, and the first of several immediate actions follows
C16_Witness ==
  /\ result # None
  /\ result.ok
  /\ result.value.aio_score >= args.seo_results.total_score
  /\ Len(args.aio_results.immediate_actions) > 1
  /\ Len(result.value.improvements) = 3
  /\ \E k \in DOMAIN args.seo_results.scores :
       /\ k \notin {result.value.improvements[1].what,
                    result.value.improvements[2].what}
       /\ args.seo_results.scores[k] = result.value.improvements[2].score

(***************************************************************************)
(* IndustryResolver, lines 237-263.  A label is a sequence of characters;  *)
(* the empty sequence is the empty string (and None, equally falsy).       *)
(***************************************************************************)
MaxLabelLen == 2

Chars == {"f", "F", "r"}

\* str.lower(), character by character
LowerChar(c) == IF c = "F" THEN "f" ELSE c

Lower(str) == [i \in 1..Len(str) |-> LowerChar(str[i])]

\* a in b, for two strings
Contains(b, a) ==
  \E i \in 0..(Len(b) - Len(a)) : SubSeq(b, i + 1, i + Len(a)) = a

Labels == UNION { [1..n -> Chars] : n \in 0..MaxLabelLen }

Confidences == 0..100

\* the label the code writes when nothing can be determined (line 260)
Undetermined == << "undetermined" >>

DetermineThreshold70(user_industry, auto) ==
  IF user_industry # << >> /\ auto.confidence_score > 70
  THEN IF Contains(Lower(auto.primary_industry), Lower(user_industry))
       THEN [primary |-> user_industry, source |-> "user, confirmed by auto",
             confidence |-> 95, auto_primary |-> auto.primary_industry,
             auto_confidence |-> auto.confidence_score]
       ELSE [primary |-> user_industry, source |-> "user, auto differs",
             confidence |-> 85, auto_primary |-> auto.primary_industry,
             auto_confidence |-> auto.confidence_score]
  ELSE IF user_industry # << >>
  THEN [primary |-> user_industry, source |-> "user", confidence |-> 80,
        auto_primary |-> auto.primary_industry,
        auto_confidence |-> auto.confidence_score]
  ELSE IF auto.confidence_score > 70
  THEN [primary |-> auto.primary_industry, source |-> "auto",
        confidence |-> auto.confidence_score,
        auto_primary |-> auto.primary_industry,
        auto_confidence |-> auto.confidence_score]
  ELSE [primary |-> Undetermined, source |-> "undetermined",
        confidence |-> auto.confidence_score,
        auto_primary |-> auto.primary_industry,
        auto_confidence |-> auto.confidence_score]

\* a resolver that accepts the auto label from confidence 70 on
DetermineAutoFrom70(user_industry, auto) ==
  LET verdict(primary, source, confidence) ==
        [primary |-> primary, source |-> source, confidence |-> confidence,
         auto_primary |-> auto.primary_industry,
         auto_confidence |-> auto.confidence_score]
  IN  IF user_industry # << >> /\ auto.confidence_score > 50
      THEN IF Contains(Lower(auto.primary_industry), Lower(user_industry))
           THEN verdict(user_industry, "user, confirmed by auto", 95)
           ELSE verdict(user_industry, "user, auto differs", 85)
      ELSE IF user_industry # << >>
      THEN verdict(user_industry, "user", 80)
      ELSE IF auto.confidence_score >= 70
      THEN verdict(auto.primary_industry, "auto", auto.confidence_score)
      ELSE verdict(Undetermined, "undetermined", auto.confidence_score)

\* user_industry: the label, << >> when none is given ('' and None alike:
\* the code reads a missing label only through its truth value);
\* auto: [primary_industry, confidence_score] of the IndustryAnalysis (its
\* secondary_industries are copied into the verdict and read nowhere)
_determine_final_industry(user_industry, auto) ==
  LET primary == IF user_industry # << >> THEN user_industry
                 ELSE auto.primary_industry
  IN  IF user_industry # << >> /\ auto.confidence_score > 50
      THEN IF Contains(Lower(auto.primary_industry), Lower(user_industry))
           THEN [primary |-> primary, source |-> "user, confirmed by auto",
                 confidence |-> 95, auto_primary |-> auto.primary_industry,
                 auto_confidence |-> auto.confidence_score]
           ELSE [primary |-> primary, source |-> "user, auto differs",
                 confidence |-> 85, auto_primary |-> auto.primary_industry,
                 auto_confidence |-> auto.confidence_score]
      ELSE IF user_industry # << >>
      THEN [primary |-> primary, source |-> "user", confidence |-> 80,
            auto_primary |-> auto.primary_industry,
            auto_confidence |-> auto.confidence_score]
      ELSE IF auto.confidence_score > 70
      THEN [primary |-> primary, source |-> "auto",
            confidence |-> auto.confidence_score,
            auto_primary |-> auto.primary_industry,
            auto_confidence |-> auto.confidence_score]
      ELSE [primary |-> Undetermined, source |-> "undetermined",
            confidence |-> auto.confidence_score,
            auto_primary |-> auto.primary_industry,
            auto_confidence |-> auto.confidence_score]

InitIndustry ==
  /\ EngineInit
  /\ args \in [user_industry : Labels,
               auto : [primary_industry : Labels, confidence_score : Confidences]]
  /\ result = None

DetermineFinalIndustry ==
  /\ result = None
  /\ result' = _determine_final_industry(args.user_industry, args.auto)
  /\ UNCHANGED << args, engine_vars >>

NextIndustry == DetermineFinalIndustry

SpecIndustry == InitIndustry /\ [][NextIndustry]_vars

\* the user label occurs in the auto label, letter case set aside
UserInAuto ==
  \E i \in 1..Len(args.auto.primary_industry) :
    /\ i + Len(args.user_industry) - 1 <= Len(args.auto.primary_industry)
    /\ \A j \in 1..Len(args.user_industry) :
         LowerChar(args.auto.primary_industry[i + j - 1])
           = LowerChar(args.user_industry[j])

\* C4 as stated: with a user industry given, the primary label is the user
\* label and the confidence is 95 (auto confidence > 70, user label inside
\* the auto label), 85 (auto confidence > 70, not inside) or 80 (auto
\* confidence <= 70).
C4_Original ==
  (result # None /\ args.user_industry # << >>) =>
    /\ result.primary = args.user_industry
    /\ result.confidence =
         IF args.auto.confidence_score > 70
         THEN (IF UserInAuto THEN 95 ELSE 85)
         ELSE 80

\* C4 amended: the threshold of the user branch is 50, not 70: confidence
\* 95 / 85 when auto confidence > 50, and 80 when auto confidence <= 50.
C4_UserIndustry ==
  (result # None /\ args.user_industry # << >>) =>
    /\ result.primary = args.user_industry
    /\ result.confidence =
         IF args.auto.confidence_score > 50
         THEN (IF UserInAuto THEN 95 ELSE 85)
         ELSE 80

\* a user label confirmed by an auto label of another letter case, at an
\* auto confidence between the two thresholds
C4_Witness ==
  /\ result # None
  /\ args.user_industry # << >>
  /\ args.user_industry # args.auto.primary_industry
  /\ UserInAuto
  /\ args.auto.confidence_score > 50
  /\ args.auto.confidence_score <= 70
  /\ result.confidence = 95

\* C11: with no user industry given, an auto confidence above 70 makes the
\* auto label the primary label, and an auto confidence of 70 or less makes
\* the 'undetermined' sentinel the primary label; in both cases the
\* verdict's confidence is the auto confidence
C11_NoUserIndustry ==
  (result # None /\ args.user_industry = << >>) =>
    /\ result.confidence = args.auto.confidence_score
    /\ result.primary =
         IF args.auto.confidence_score > 70 THEN args.auto.primary_industry
         ELSE Undetermined

\* no user industry, an auto label at confidence exactly 70
C11_Witness ==
  /\ result # None
  /\ args.user_industry = << >>
  /\ args.auto.primary_industry # << >>
  /\ args.auto.confidence_score = 70
  /\ result.primary = Undetermined
  /\ result.confidence = 70

(***************************************************************************)
(* The LLM's text, lines 572-583.  A text is a sequence of tokens:         *)
(*   "FJ"  the fence ```json        "F"  the fence ```                     *)
(*   "{" "}"  the braces            "m"  a member of an object, complete   *)
(*   "x"  any other run of characters (prose), never valid inside JSON     *)
(* Whitespace, which strip() removes at the ends and JSON allows anywhere, *)
(* moves neither find/rfind's order nor the parse, and is left out.        *)
(***************************************************************************)
MaxTextLen == 4

Tokens == {"FJ", "F", "{", "}", "m", "x"}

Texts == UNION { [1..n -> Tokens] : n \in 0..MaxTextLen }

\* str.replace(token, with), with a sequence of tokens (empty to delete)
RECURSIVE Replace(_, _, _)
Replace(text, token, with) ==
  IF text = << >> THEN << >>
  ELSE (IF Head(text) = token THEN with ELSE << Head(text) >>)
         \o Replace(Tail(text), token, with)

\* lines 574-577; deleting ``` from ```json leaves the prose "json"
StripFence(text) ==
  IF text # << >> /\ text[1] = "FJ"
  THEN Replace(Replace(text, "FJ", << >>), "F", << >>)
  ELSE IF text # << >> /\ text[1] = "F"
  THEN Replace(Replace(text, "FJ", << "x" >>), "F", << >>)
  ELSE text

\* str.find: the first index of token, 0 for Python's -1
Find(text, token) ==
  IF \E i \in 1..Len(text) : text[i] = token
  THEN CHOOSE i \in 1..Len(text) :
         text[i] = token /\ \A j \in 1..(i - 1) : text[j] # token
  ELSE 0

\* str.rfind: the last index of token, 0 for Python's -1
RFind(text, token) ==
  IF \E i \in 1..Len(text) : text[i] = token
  THEN CHOOSE i \in 1..Len(text) :
         text[i] = token /\ \A j \in (i + 1)..Len(text) : text[j] # token
  ELSE 0

\* braces opened and not closed within the first i tokens
RECURSIVE Depth(_, _)
Depth(text, i) ==
  IF i = 0 THEN 0
  ELSE Depth(text, i - 1)
         + (IF text[i] = "{" THEN 1 ELSE IF text[i] = "}" THEN -1 ELSE 0)

\* json.loads succeeds on text: one object, holding members and objects
JsonLoads(text) ==
  /\ text # << >>
  /\ Head(text) = "{"
  /\ \A i \in 1..Len(text) : text[i] \in {"{", "}", "m"}
  /\ \A i \in 1..(Len(text) - 1) : Depth(text, i) > 0
  /\ Depth(text, Len(text)) = 0

\* lines 572-583: the slice that is parsed, or the exception raised
ParseResponse(content) ==
  LET aio_analysis_str == StripFence(content)
      start_idx == Find(aio_analysis_str, "{")
      end_idx == RFind(aio_analysis_str, "}")
  IN  IF start_idx = 0 \/ end_idx = 0 \/ start_idx >= end_idx
      THEN Raised("ValueError")
      ELSE IF ~JsonLoads(SubSeq(aio_analysis_str, start_idx, end_idx))
      THEN Raised("JSONDecodeError")
      ELSE Returned(SubSeq(aio_analysis_str, start_idx, end_idx))

(***************************************************************************)
(* ConsistencyValidator, lines 648-685.  A field of the report is a number *)
(* or stays None when an exception cut the computation short (the except   *)
(* clause swallows it).  The integrated values are held times 100.         *)
(***************************************************************************)
NoneValue == [kind |-> "none", v |-> 0]

RECURSIVE SumItemScores(_, _)
SumItemScores(scores, keys) ==
  IF keys = << >> THEN 0
  ELSE scores[Head(keys)].score.v + SumItemScores(scores, Tail(keys))

\* seo, aio, last: the engine's seo_results, aio_results, last_analysis_results
_validate_score_consistency(seo, aio, last) ==
  LET seo_expected ==
        IF seo = None THEN 0
        ELSE (SumScores(seo.scores, SubScoreNames) \div Len(SubScoreNames)) * 10
      seo_reported == IF seo = None THEN 0 ELSE seo.total_score
      \* line 667 raises on an item that is no dict, line 668 on a score
      \* that is no number
      aio_raises ==
        /\ aio # None
        /\ \E k \in ScoreKeys :
             \/ ~aio.scores[k].isdict
             \/ aio.scores[k].score.kind \notin {"num", "absent"}
      aio_observed ==
        IF aio = None THEN 0
        ELSE (SumItemScores(aio.scores, AIO_SCORE_MAP_JP)
                \div Len(AIO_SCORE_MAP_JP)) * 10
      aio_reported == IF aio = None THEN 0 ELSE aio.total_score
      balance == IF last = None THEN 50 ELSE last.balance
      integrated_expected ==
        seo_reported * (100 - balance) + aio_reported * balance
      integrated_reported ==
        IF last = None THEN 0 ELSE last.integrated_results.integrated_score
      seo_part ==
        [seo_total_expected |-> Num(seo_expected),
         seo_total_reported |-> Num(seo_reported),
         seo_delta |-> Num(seo_reported - seo_expected)]
  IN  IF aio_raises
      THEN seo_part @@
           [aio_total_observed |-> NoneValue, aio_total_reported |-> NoneValue,
            aio_delta |-> NoneValue, integrated_expected |-> NoneValue,
            integrated_reported |-> NoneValue, integrated_delta |-> NoneValue]
      ELSE seo_part @@
           [aio_total_observed |-> Num(aio_observed),
            aio_total_reported |-> Num(aio_reported),
            aio_delta |-> Num(aio_reported - aio_observed),
            integrated_expected |-> Num(integrated_expected),
            integrated_reported |-> Num(integrated_reported),
            integrated_delta |-> Num(integrated_reported - integrated_expected)]

(***************************************************************************)
(* The engine.  analyze_url is one call, in two steps around the one point *)
(* where it waits: AnalyzeUrlStart runs lines 192-216 and the prompt       *)
(* building of _analyze_aio up to the request of line 571; LLMResponds or  *)
(* LLMCallFails is the rest of the call.  Nothing else runs in between     *)
(* (the engine is single-threaded): pc = "idle" marks the states a caller  *)
(* can observe.  Of last_analysis_results, url, user_industry,             *)
(* final_industry, industry_analysis and timestamp are written and read by *)
(* no operation below, and are not held.                                   *)
(***************************************************************************)
WeakContent ==
  [headings |-> NoHeadings, links |-> [internal |-> 0, external |-> 0],
   images |-> [with_alt |-> 0, without_alt |-> 1], title_len |-> 5,
   description_len |-> 0, text |-> [word_count |-> 0, text_html_ratio |-> 0],
   head |-> [has_viewport |-> FALSE, canonical_url |-> FALSE]]

StrongContent ==
  [headings |-> GoodHeadings, links |-> [internal |-> 5, external |-> 3],
   images |-> [with_alt |-> 1, without_alt |-> 0], title_len |-> 45,
   description_len |-> 140,
   text |-> [word_count |-> 600, text_html_ratio |-> 25],
   head |-> [has_viewport |-> TRUE, canonical_url |-> TRUE]]

\* the pages requests.get may bring back
EnginePages ==
  { Soup(c, ld, chrome) : c \in {WeakContent, StrongContent},
                          ld \in 0..MaxLdJson,
                          chrome \in {EmptyRegion, NavRegion} }

EngineBalances == {0, 100}

NoScores == [kind |-> "absent", items |-> << >>]

NoCategories == [kind |-> "absent", items |-> << >>]

\* the objects the LLM's JSON may denote: totals 1, 75 and -5; a 'scores'
\* that is no object; an item of 'scores' that is no object; a total and a
\* category score that are no numbers; an item whose score is no number
EngineObjects ==
  { [total_score |-> Num(v), category_scores |-> NoCategories,
     scores |-> NoScores, immediate_actions |-> << "a1" >>] :
       v \in {Pt(1), Pt(75), Pt(-5)} }
  \cup
  { [total_score |-> Num(Pt(75)), category_scores |-> NoCategories,
     scores |-> [kind |-> "other", items |-> << >>],
     immediate_actions |-> << "a1" >>],
    [total_score |-> Num(Pt(75)), category_scores |-> NoCategories,
     scores |-> [kind |-> "dict", items |-> [k \in {"experience"} |-> NoDictItem]],
     immediate_actions |-> << "a1" >>],
    [total_score |-> NonNum,
     category_scores |->
       [kind |-> "dict", items |-> [c \in {"eeat_score"} |-> NonNum]],
     scores |-> NoScores, immediate_actions |-> << "a1" >>],
    [total_score |-> Num(Pt(75)), category_scores |-> NoCategories,
     scores |-> [kind |-> "dict",
                 items |-> [k \in {"experience"} |-> Item(NonNum, "advice")]],
     immediate_actions |-> << "a1" >>] }

Init ==
  /\ EngineInit
  /\ args = None
  /\ result = None

RaisedAt(error, text) == [status |-> "raised", error |-> error, llm_text |-> text]

\* analyze_url raises before line 211: the API probe or the page fetch fails
AnalyzeUrlFetchFails ==
  /\ pc = "idle"
  /\ ret' = RaisedAt("fetch", << >>)
  /\ result' = None
  /\ UNCHANGED << pc, seo_results, aio_results, last_analysis_results, call, args >>

\* lines 192-216, and _analyze_aio up to its request
AnalyzeUrlStart ==
  /\ pc = "idle"
  /\ \E page \in EnginePages, balance \in EngineBalances :
       LET soup == StripNonContent(page)
       IN  /\ seo_results' = _analyze_seo(soup)
           /\ call' = [page |-> page, soup |-> soup, balance |-> balance]
  /\ pc' = "awaiting_llm"
  /\ ret' = None
  /\ result' = None
  /\ UNCHANGED << aio_results, last_analysis_results, args >>

\* line 571 raises
LLMCallFails ==
  /\ pc = "awaiting_llm"
  /\ pc' = "idle"
  /\ call' = None
  /\ ret' = RaisedAt("llm", << >>)
  /\ UNCHANGED << seo_results, aio_results, last_analysis_results, args, result >>

\* a call that checks the response text last, after it has stored
FinishStoringEarly(seo, aio, last, balance, text, obj) ==
  LET parsed == ParseResponse(text)
      normalized == Normalize(obj)
      integrated == _integrate_results(seo, normalized.value,
                                       100 - balance, balance)
      stored == [balance |-> balance, seo_results |-> seo,
                 aio_results |-> normalized.value,
                 integrated_results |-> integrated.value]
  IN  IF ~normalized.ok
      THEN [aio_results |-> aio, last_analysis_results |-> last,
            ret |-> RaisedAt(normalized.error, text)]
      ELSE IF ~integrated.ok
      THEN [aio_results |-> normalized.value, last_analysis_results |-> last,
            ret |-> RaisedAt(integrated.error, text)]
      ELSE IF ~parsed.ok
      THEN [aio_results |-> normalized.value, last_analysis_results |-> stored,
            ret |-> RaisedAt(parsed.error, text)]
      ELSE [aio_results |-> normalized.value, last_analysis_results |-> stored,
            ret |-> [status |-> "returned", error |-> "", llm_text |-> text]]

\* lines 572-604 of _analyze_aio, then lines 217-235 of analyze_url: what the
\* call leaves in aio_results and last_analysis_results, and how it ends.
\* seo, aio, last: the stored fields as the response arrives; text: the
\* response; obj: the object its JSON denotes when it parses
Finish(seo, aio, last, balance, text, obj) ==
  LET parsed == ParseResponse(text)
      normalized == Normalize(obj)
      integrated == _integrate_results(seo, normalized.value,
                                       100 - balance, balance)
  IN  IF ~parsed.ok
      THEN [aio_results |-> aio, last_analysis_results |-> last,
            ret |-> RaisedAt(parsed.error, text)]
      ELSE IF ~normalized.ok
      THEN [aio_results |-> aio, last_analysis_results |-> last,
            ret |-> RaisedAt(normalized.error, text)]
      ELSE IF ~integrated.ok
      THEN [aio_results |-> normalized.value, last_analysis_results |-> last,
            ret |-> RaisedAt(integrated.error, text)]
      ELSE [aio_results |-> normalized.value,
            last_analysis_results |->
              [balance |-> balance, seo_results |-> seo,
               aio_results |-> normalized.value,
               integrated_results |-> integrated.value],
            ret |-> [status |-> "returned", error |-> "", llm_text |-> text]]

\* the response is any text of texts
LLMRespondsWith(texts) ==
  /\ pc = "awaiting_llm"
  /\ pc' = "idle"
  /\ call' = None
  /\ \E text \in texts, obj \in EngineObjects :
       LET f == Finish(seo_results, aio_results, last_analysis_results,
                       call.balance, text, obj)
       IN  /\ aio_results' = f.aio_results
           /\ last_analysis_results' = f.last_analysis_results
           /\ ret' = f.ret
  /\ UNCHANGED << seo_results, args, result >>

\* a fenced object, prose without an object, an object that is no JSON
EngineTexts ==
  { << "FJ", "{", "m", "}", "F" >>, << "x" >>, << "{", "x", "}" >> }

LLMResponds == LLMRespondsWith(EngineTexts)

\* a validator that forgets the stored SEO result as it reports
ValidateAndForget ==
  /\ pc = "idle"
  /\ result' = _validate_score_consistency(seo_results, aio_results,
                                           last_analysis_results)
  /\ seo_results' = None
  /\ UNCHANGED << pc, aio_results, last_analysis_results, call, ret, args >>

\* a caller asks for the consistency report between two calls
ValidateScoreConsistency ==
  /\ pc = "idle"
  /\ result' = _validate_score_consistency(seo_results, aio_results,
                                           last_analysis_results)
  /\ UNCHANGED << engine_vars, args >>

\* how a call of generate_enhanced_pdf_report ended
ReportOutcome(status, error) ==
  [status |-> status, error |-> error, llm_text |-> << >>]

\* a report generator that asks for a stored SEO result
GenerateOnSeoResults ==
  /\ pc = "idle"
  /\ IF seo_results = None
     THEN ret' = ReportOutcome("report_raised", "ValueError")
     ELSE \E built \in BOOLEAN :
            ret' = IF built THEN ReportOutcome("report_built", "")
                   ELSE ReportOutcome("report_raised", "ValueError")
  /\ UNCHANGED << pc, seo_results, aio_results, last_analysis_results, call,
                  args, result >>

\* lines 687-691 and the rendering that follows: without a stored analysis
\* line 689 raises; with one, the report is built, unless ReportLab is
\* missing (line 691) or the rendering fails
GenerateEnhancedPdfReport ==
  /\ pc = "idle"
  /\ IF last_analysis_results = None
     THEN ret' = ReportOutcome("report_raised", "ValueError")
     ELSE \E built \in BOOLEAN :
            ret' = IF built THEN ReportOutcome("report_built", "")
                   ELSE ReportOutcome("report_raised", "ValueError")
  /\ UNCHANGED << pc, seo_results, aio_results, last_analysis_results, call,
                  args, result >>

Next ==
  \/ AnalyzeUrlFetchFails
  \/ AnalyzeUrlStart
  \/ LLMCallFails
  \/ LLMResponds
  \/ ValidateScoreConsistency
  \/ GenerateEnhancedPdfReport

Spec == Init /\ [][Next]_vars

\* the outcomes of a call that succeeds or fails at the AIO step
AioStepOutcomes == {"", "llm", "ValueError", "JSONDecodeError"}

\* C1: after a call that succeeded or failed at the AIO step, the stored
\* seo_results, aio_results and last_analysis_results come from the same run:
\* all three are unset, or seo_results and aio_results are the ones held in
\* last_analysis_results
C1_SameRun ==
  ( /\ pc = "idle"
    /\ ret # None
    /\ ret.status \in {"returned", "raised"}
    /\ ret.error \in AioStepOutcomes )
    => \/ /\ seo_results = None
          /\ aio_results = None
          /\ last_analysis_results = None
       \/ /\ last_analysis_results # None
          /\ seo_results = last_analysis_results.seo_results
          /\ aio_results = last_analysis_results.aio_results

\* the elements of kind f in the page as fetched, wherever they lie
FetchedCount(page, f) == page.content[f] + page.chrome[f]

\* C2: within analyze_url the page signals _analyze_seo sees (presence and
\* count of structured-data scripts, heading, link and image counts) are
\* those of the page as fetched
C2_SignalsAsFetched ==
  pc = "awaiting_llm"
    => /\ seo_results.technical.has_structured_data = (call.page.ld_json > 0)
       /\ seo_results.technical.structured_data_count = call.page.ld_json
       /\ \A i \in 1..6 :
            seo_results.structure.headings[i]
              = call.page.content.headings[i] + call.page.chrome.headings[i]
       /\ seo_results.structure.internal_links_count
            = FetchedCount(call.page, "internal_links")
       /\ seo_results.structure.external_links_count
            = FetchedCount(call.page, "external_links")
       /\ seo_results.structure.images_count
            = FetchedCount(call.page, "images_with_alt")
                + FetchedCount(call.page, "images_without_alt")

\* C6: in every state a caller can observe, the consistency report has
\* seo_total_reported equal to seo_total_expected and seo_delta equal to 0
C6_SeoDeltaZero ==
  (pc = "idle" /\ result # None)
    => /\ result.seo_delta = Num(0)
       /\ result.seo_total_reported = result.seo_total_expected

\* a report taken after a failed call that followed a successful one, on an
\* aggregate that is not 0
C6_Witness ==
  /\ pc = "idle"
  /\ result # None
  /\ ret # None
  /\ ret.status = "raised"
  /\ seo_results # None
  /\ last_analysis_results # None
  /\ result.seo_total_reported.v > 0

\* lines 649-659: the keys of the report
ReportFields ==
  { "seo_total_expected", "seo_total_reported", "seo_delta",
    "aio_total_observed", "aio_total_reported", "aio_delta",
    "integrated_expected", "integrated_reported", "integrated_delta" }

\* C18: in every state a caller can observe, _validate_score_consistency
\* returns the nine report fields, raises nothing and leaves seo_results,
\* aio_results and last_analysis_results as they were
C18_ValidatorPure ==
  [][ (result' # None /\ result' # result)
        => /\ DOMAIN result' = ReportFields
           /\ seo_results' = seo_results
           /\ aio_results' = aio_results
           /\ last_analysis_results' = last_analysis_results
           /\ pc' = pc ]_vars

\* a report taken after a run that failed once its SEO side was stored, on
\* stored AIO scores the recomputation cannot add up: the exception stayed
\* inside the validator
C18_Witness ==
  /\ pc = "idle"
  /\ result # None
  /\ DOMAIN result = ReportFields
  /\ ret # None
  /\ ret.status = "raised"
  /\ seo_results # None
  /\ result.aio_delta = NoneValue

\* C19: after an analysis that succeeded, no score field is left that is no
\* number: every per-item score of the AioScoreSet and of the integrated
\* per-item distribution is a number (0 in place of a non-numeric one), and
\* the consistency report has a number for each of its three deltas
C19_NonNumericIsZero ==
  (pc = "idle" /\ ret # None /\ ret.status = "returned") =>
    /\ \A k \in ScoreKeys :
         /\ aio_results.scores[k].score.kind # "other"
         /\ last_analysis_results.integrated_results
              .aio_score_distribution[k].kind # "other"
    /\ result # None =>
         /\ result.seo_delta.kind = "num"
         /\ result.aio_delta.kind = "num"
         /\ result.integrated_delta.kind = "num"

\* C20: right after a successful analysis the integrated result's aio_score
\* is the stored aio_results total, and the consistency report has
\* integrated_delta equal to 0
C20_IntegratedAgrees ==
  (pc = "idle" /\ ret # None /\ ret.status = "returned") =>
    /\ last_analysis_results.integrated_results.aio_score
         = aio_results.total_score
    /\ result # None => result.integrated_delta = Num(0)

\* an analyze_url call has just returned its result
AnalysisSucceeded == ret # None /\ ret.status = "returned"

\* generate_enhanced_pdf_report has just built a report
ReportBuilt == ret # None /\ ret.status = "report_built"

\* C21: a report is built only after an analyze_url call has succeeded on
\* this engine: as long as none has (a fresh engine, or one whose analyses
\* all failed, before or after the SEO side was stored),
\* generate_enhanced_pdf_report raises and builds nothing; and it never
\* changes the engine's stored fields
C21_ReportOnlyAfterSuccess ==
  /\ ([]~AnalysisSucceeded) => ([]~ReportBuilt)
  /\ [][ (ret' # None /\ ret'.status \in {"report_built", "report_raised"})
           => /\ seo_results' = seo_results
              /\ aio_results' = aio_results
              /\ last_analysis_results' = last_analysis_results
              /\ pc' = pc ]_vars

\* the report was asked for, and refused, on an engine whose only analysis
\* failed after its SEO side was stored
C21_Witness ==
  /\ pc = "idle"
  /\ ret # None
  /\ ret.status = "report_raised"
  /\ seo_results # None
  /\ last_analysis_results = None

(***************************************************************************)
(* The response step on its own, over every text of the bounded alphabet:  *)
(* the call in progress is one on a fresh engine, or one that follows an   *)
(* earlier call on any sample page.                                        *)
(***************************************************************************)
GoodText == << "{", "m", "}" >>

PriorEngines ==
  { [aio_results |-> None, last_analysis_results |-> None] }
  \cup
  { [aio_results |-> f.aio_results,
     last_analysis_results |-> f.last_analysis_results] :
      f \in { Finish(_analyze_seo(StripNonContent(page)), None, None,
                     balance, GoodText, obj) :
                page \in EnginePages, balance \in EngineBalances,
                obj \in EngineObjects } }

InitParse ==
  /\ pc = "awaiting_llm"
  /\ \E prior \in PriorEngines :
       /\ aio_results = prior.aio_results
       /\ last_analysis_results = prior.last_analysis_results
  /\ \E page \in { Soup(WeakContent, MaxLdJson, NavRegion) } :
       /\ seo_results = _analyze_seo(StripNonContent(page))
       /\ call = [page |-> page, soup |-> StripNonContent(page), balance |-> 100]
  /\ ret = None
  /\ args = None
  /\ result = None

LLMRespondsAny == LLMRespondsWith(Texts)

NextParse ==
  \/ LLMRespondsAny
  \/ LLMCallFails

SpecParse == InitParse /\ [][NextParse]_vars

\* the text has no '{', no '}', or its first '{' is not before its last '}'
NoObjectSpan(t) ==
  ~ \E i, j \in 1..Len(t) : i < j /\ t[i] = "{" /\ t[j] = "}"

\* the text from its first '{' to its last '}'
ObjectSpan(t) ==
  LET opens == { i \in 1..Len(t) : t[i] = "{" }
      closes == { j \in 1..Len(t) : t[j] = "}" }
      first == CHOOSE i \in opens : \A k \in opens : i <= k
      last == CHOOSE j \in closes : \A k \in closes : k <= j
  IN  [k \in 1..(last - first + 1) |-> t[first + k - 1]]

\* t is a JSON object: braces that nest and close at the last token, with
\* nothing but members between them
ValidJsonObject(t) ==
  /\ Len(t) >= 2
  /\ \A k \in 1..Len(t) : t[k] \in {"{", "}", "m"}
  /\ \A k \in 1..Len(t) :
       LET opened == Cardinality({ i \in 1..k : t[i] = "{" })
           closed == Cardinality({ i \in 1..k : t[i] = "}" })
       IN  IF k < Len(t) THEN opened > closed ELSE opened = closed

Malformed(text) ==
  LET t == StripFence(text)
  IN  NoObjectSpan(t) \/ ~ValidJsonObject(ObjectSpan(t))

\* C9: when the response, after fence stripping, has no '{', no '}', its
\* first '{' not before its last '}', or a slice between them that is not
\* valid JSON, the call raises, stores no aio_results and leaves
\* last_analysis_results as it was; a response whose slice is a valid JSON
\* object is parsed, whatever surrounds the slice
C9_MalformedResponse ==
  [][ (pc = "awaiting_llm" /\ pc' = "idle" /\ ret'.error # "llm")
        => IF Malformed(ret'.llm_text)
           THEN /\ ret'.status = "raised"
                /\ ret'.error \in {"ValueError", "JSONDecodeError"}
                /\ aio_results' = aio_results
                /\ last_analysis_results' = last_analysis_results
           ELSE ret'.error \notin {"ValueError", "JSONDecodeError"} ]_vars

\* a call that followed a completed one has failed on a response that holds
\* a '{' before a '}' with no JSON between them
C9_Witness ==
  /\ pc = "idle"
  /\ ret # None
  /\ ret.error = "JSONDecodeError"
  /\ ~NoObjectSpan(StripFence(ret.llm_text))
  /\ last_analysis_results # None

(***************************************************************************)
(* ContentExtractor, lines 265-284, on its own.  A page is the list of the *)
(* elements its content-region selectors match, in the order the two loops *)
(* of lines 270-272 visit them (by selector, then by place in the          *)
(* document), each with the length of the text line 276 collects from it,  *)
(* and whether it has a body element.  The text returned is given by where *)
(* it comes from and by the regions joined into it.                        *)
(***************************************************************************)
MaxRegions == 3

\* line 268
main_selectors ==
  << "article", "main", ".main-content", "#content", "#main", ".post-content" >>

\* text lengths around the thresholds 200 and 5000 (2500 + 1 + 2499 = 5000)
RegionLens == {200, 201, 2499, 2500, 6000}

RegionLists ==
  UNION { { r \in [1..n -> [selector : 1..Len(main_selectors), len : RegionLens]] :
              \A i \in 1..(n - 1) : r[i].selector <= r[i + 1].selector } :
          n \in 0..MaxRegions }

ExtractPages == [regions : RegionLists, has_body : BOOLEAN]

\* len(" ".join(content_parts)), content_parts given by the regions' indices
RECURSIVE JoinedLen(_, _)
JoinedLen(regions, parts) ==
  IF parts = << >> THEN 0
  ELSE IF Len(parts) = 1 THEN regions[parts[1]].len
  ELSE regions[Head(parts)].len + 1 + JoinedLen(regions, Tail(parts))

\* a loop that never returns early
RECURSIVE CollectWithoutCutoff(_, _, _)
CollectWithoutCutoff(regions, i, content_parts) ==
  IF i > Len(regions) THEN [content_parts |-> content_parts, cut |-> FALSE]
  ELSE IF regions[i].len > 200
  THEN CollectWithoutCutoff(regions, i + 1, Append(content_parts, i))
  ELSE CollectWithoutCutoff(regions, i + 1, content_parts)

\* lines 270-280, from the i-th matched element on
RECURSIVE Collect(_, _, _)
Collect(regions, i, content_parts) ==
  IF i > Len(regions) THEN [content_parts |-> content_parts, cut |-> FALSE]
  ELSE IF regions[i].len > 200
  THEN LET appended == Append(content_parts, i)
       IN  IF JoinedLen(regions, appended) > 5000
           THEN [content_parts |-> appended, cut |-> TRUE]
           ELSE Collect(regions, i + 1, appended)
  ELSE Collect(regions, i + 1, content_parts)

\* lines 268-284
_extract_main_content(page) ==
  LET collected == Collect(page.regions, 1, << >>)
  IN  IF collected.content_parts # << >>
      THEN [source |-> "regions", parts |-> collected.content_parts,
            length |-> JoinedLen(page.regions, collected.content_parts)]
      ELSE [source |-> IF page.has_body THEN "body" ELSE "document",
            parts |-> << >>, length |-> 0]

InitExtract ==
  /\ EngineInit
  /\ args \in ExtractPages
  /\ result = None

ExtractMainContent ==
  /\ result = None
  /\ result' = _extract_main_content(args)
  /\ UNCHANGED << args, engine_vars >>

NextExtract == ExtractMainContent

SpecExtract == InitExtract /\ [][NextExtract]_vars

\* C13: the regions joined into the output come in selector-priority order;
\* the cutoff is checked after each append, so that the output without its
\* last region is at most 5000 characters long, no region follows the one
\* that crossed 5000, and the output may be longer than 5000: a first region
\* of 6000 characters is returned whole and alone
C13_CutoffAfterAppend ==
  (result # None /\ result.source = "regions") =>
    /\ \A k \in 1..(Len(result.parts) - 1) :
         /\ result.parts[k] < result.parts[k + 1]
         /\ JoinedLen(args.regions, SubSeq(result.parts, 1, k)) <= 5000
    /\ result.length = JoinedLen(args.regions, result.parts)
    /\ args.regions[1].len = 6000 =>
         (result.parts = << 1 >> /\ result.length = 6000)

\* two regions were joined into more than 5000 characters and a third one,
\* long enough to be appended, was left out
C13_Witness ==
  /\ result # None
  /\ result.source = "regions"
  /\ Len(result.parts) = 2
  /\ result.length > 5000
  /\ \E i \in 1..Len(args.regions) :
       /\ i > result.parts[2]
       /\ args.regions[i].len > 200

\* C17: the body (or whole-document) fallback is used only when no selector
\* matches: with at least one matched element the output is built from the
\* matched regions
C17_FallbackOnlyWithoutMatch ==
  (result # None /\ args.regions # << >>) => result.source = "regions"

=============================================================================
